---------------------------- MODULE Spec2Model ----------------------------
(***************************************************************************)
(* Grid ranking engine of the GMB local rank tracker.                      *)
(*                                                                         *)
(* The module models services/mockDataService.ts: parseGridSize, the scan  *)
(* loop of generateScanResults (progress tick, scoring, sorting, ranking)  *)
(* and its aggregation into the summary and the competitor list.  This is  *)
(* the generateScanResults that takes the sources as its fourth argument,  *)
(* as App's handleScan calls it.  Around it the module models one          *)
(* activation of App's handleScan, with the getCompetitorList that         *)
(* resolves to { businesses, sources }, and a caller that repeats a call.  *)
(*                                                                         *)
(* Specifications: SpecParse (parseGridSize alone), Spec (one call of      *)
(* generateScanResults), SpecTwice (the call repeated with the same        *)
(* arguments), SpecApp (one activation of handleScan), SpecSession (the    *)
(* App over several scans, with the history, its copy in localStorage and  *)
(* the insights) and SpecSearch (the location search of the Sidebar).      *)
(*                                                                         *)
(* Numbers.  TLA+ has integers only, so every quantity is kept exact in a  *)
(* scaled integer or as a fraction [num, den]:                             *)
(*   - spanKm and every averageRank are fractions; NaN is a record of its own; *)
(*   - a latitude is kept as twice its value in metres of arc north        *)
(*     (1 degree = LAT_DEG_IN_KM km), a longitude as twice its value in    *)
(*     metres of arc east at the target's latitude (1 degree =             *)
(*     LNG_DEG_IN_KM km), so that ((height - 1) / 2) * stepLat is an       *)
(*     integer;                                                            *)
(*   - a score is the fraction jitter / (distance + 0.1) and two scores    *)
(*     are compared by cross multiplication.                               *)
(***************************************************************************)
EXTENDS Integers, Sequences, FiniteSets, TLC

VARIABLES
    gridSize,      \* parseGridSize: the text handed to it
    parsed,        \* parseGridSize: what it returned (Null before the call)
    settings,      \* generateScanResults: the ScanSettings argument
    competitors,   \* generateScanResults: the competitors argument
    pc,            \* generateScanResults: where the call stands
    grid,          \* the locals width, height and spanKm
    r,             \* loop variable r (row)
    c,             \* loop variable c (column)
    rankings,      \* the local array rankings
    progress,      \* every onProgress call made so far, in order
    result,        \* the ScanResult returned (Null before the return)
    unjittered,    \* every Math.random() so far gave the factor 1.0
    previous,      \* what an earlier call with the same arguments returned
    app,           \* handleScan: where the activation stands
    discovery,     \* getCompetitorList: how the call ended
    isScanning,    \* App state isScanning
    scanCompleted, \* App state scanCompleted
    scanResult,    \* App state scanResult
    scanProgress,  \* App state scanProgress
    scanHistory,   \* App state scanHistory
    cancelRequested, \* the user has asked for the running scan to stop
    sources,       \* generateScanResults: the sources argument
    stored,        \* localStorage item gmbScanHistory, parsed
    clock,         \* new Date(): the instants handed out so far
    ops,           \* commands the user has given so far
    insights,      \* App state insights
    fetches,       \* fetchInsights activations waiting for their answer
    inputValue,    \* SettingsSidebar state inputValue
    timers,        \* timeouts set by debouncedSearch and not yet run
    searches,      \* every onSearch call made so far, in order
    now            \* milliseconds since the Sidebar was mounted

vars ==
    <<gridSize, parsed, settings, competitors, pc, grid, r, c, rankings,
      progress, result, unjittered, previous, app, discovery, isScanning,
      scanCompleted, scanResult, scanProgress, scanHistory, cancelRequested,
      sources, stored, clock, ops, insights, fetches, inputValue,
      timers, searches, now>>

parseVars == <<gridSize, parsed>>

\* The location search of the SettingsSidebar.
searchVars == <<inputValue, timers, searches, now>>

\* The App state and the browser state only the App's handlers write.
uiVars == <<stored, clock, ops, insights, fetches, searchVars>>

\* The App state a scan does not write (onProgress writes scanProgress).
appVars ==
    <<app, discovery, isScanning, scanCompleted, scanResult, scanHistory,
      cancelRequested, uiVars>>

scanVars ==
    <<settings, competitors, sources, pc, grid, r, c, rankings,
      progress, result, unjittered, previous, scanProgress, appVars>>

\* null and NaN are records of their own, so that they compare (unequal) with
\* every business, fraction and result.
Null == [null |-> TRUE]

NaN == [nan |-> TRUE]

\* String.prototype.match found nothing.
NoMatch == [matched |-> FALSE]

--------------------------------------------------------------------------
(* Texts are sequences of one-character strings.                           *)

Digits == {"0", "1", "2", "3", "4", "5", "6", "7", "8", "9"}

DigitVal(ch) ==
    CASE ch = "0" -> 0 [] ch = "1" -> 1 [] ch = "2" -> 2 [] ch = "3" -> 3
      [] ch = "4" -> 4 [] ch = "5" -> 5 [] ch = "6" -> 6 [] ch = "7" -> 7
      [] ch = "8" -> 8 [] ch = "9" -> 9

\* \s of the regular expressions (the model's texts hold blanks only).
IsSpace(ch) == ch = " "

\* [\d.] of the distance expression.
IsDigitOrDot(ch) == ch \in Digits \/ ch = "."

RECURSIVE DigitsEnd(_, _)
\* The index just after the longest run of \d starting at i (i when none).
DigitsEnd(s, i) ==
    IF i <= Len(s) /\ s[i] \in Digits THEN DigitsEnd(s, i + 1) ELSE i

RECURSIVE SpaceEnd(_, _)
\* The index just after the longest run of \s starting at i.
SpaceEnd(s, i) ==
    IF i <= Len(s) /\ IsSpace(s[i]) THEN SpaceEnd(s, i + 1) ELSE i

RECURSIVE DigitOrDotEnd(_, _)
\* The index just after the longest run of [\d.] starting at i.
DigitOrDotEnd(s, i) ==
    IF i <= Len(s) /\ IsDigitOrDot(s[i]) THEN DigitOrDotEnd(s, i + 1) ELSE i

\* /(\d+)\s*x\s*(\d+)/ tried at position i: the two groups, or NoMatch.  The
\* quantifiers are greedy; giving back a digit or a blank never helps, as
\* what must follow a run is no member of the run's class.
SizeMatchAt(s, i) ==
    LET j == DigitsEnd(s, i)
        k == SpaceEnd(s, j)
    IN  IF j > i /\ k <= Len(s) /\ s[k] = "x"
        THEN LET m == SpaceEnd(s, k + 1)
                 n == DigitsEnd(s, m)
             IN  IF n > m
                 THEN [matched |-> TRUE,
                       g1 |-> SubSeq(s, i, j - 1), g2 |-> SubSeq(s, m, n - 1)]
                 ELSE NoMatch
        ELSE NoMatch

\* Faulty variant of SizeMatch: the expression anchored at the start of the text.
SizeMatchAnchored(s) ==
    IF Len(s) >= 1 THEN SizeMatchAt(s, 1) ELSE NoMatch

\* gridSize.match(/(\d+)\s*x\s*(\d+)/): the leftmost match, or NoMatch.
SizeMatch(s) ==
    LET hits == {i \in 1..Len(s) : SizeMatchAt(s, i).matched}
    IN  IF hits = {} THEN NoMatch
        ELSE SizeMatchAt(s, CHOOSE i \in hits : \A j \in hits : i <= j)

\* /\(([\d.]+)\s*km\)/ tried at position i: the group, or NoMatch.
DistMatchAt(s, i) ==
    IF s[i] # "(" THEN NoMatch
    ELSE LET j == DigitOrDotEnd(s, i + 1)
             k == SpaceEnd(s, j)
         IN  IF /\ j > i + 1
                /\ k + 2 <= Len(s)
                /\ s[k] = "k" /\ s[k + 1] = "m" /\ s[k + 2] = ")"
             THEN [matched |-> TRUE, g1 |-> SubSeq(s, i + 1, j - 1)]
             ELSE NoMatch

\* gridSize.match(/\(([\d.]+)\s*km\)/): the leftmost match, or NoMatch.
DistMatch(s) ==
    LET hits == {i \in 1..Len(s) : DistMatchAt(s, i).matched}
    IN  IF hits = {} THEN NoMatch
        ELSE DistMatchAt(s, CHOOSE i \in hits : \A j \in hits : i <= j)

RECURSIVE parseInt(_)
\* parseInt(digits, 10) of a non-empty run of decimal digits.
parseInt(d) ==
    IF d = <<>> THEN 0
    ELSE 10 * parseInt(SubSeq(d, 1, Len(d) - 1)) + DigitVal(d[Len(d)])

RECURSIVE Pow10(_)
Pow10(n) == IF n = 0 THEN 1 ELSE 10 * Pow10(n - 1)

\* parseFloat of a run of [\d.]: the value of its longest prefix that is a
\* decimal literal (digits, optionally a point and digits; at least one
\* digit), as a fraction; NaN when no prefix is one ("." or "..5").
parseFloat(t) ==
    LET i == DigitsEnd(t, 1)                     \* after the integer part
        hasDot == i <= Len(t) /\ t[i] = "."
        f == IF hasDot THEN DigitsEnd(t, i + 1) ELSE i
        ip == SubSeq(t, 1, i - 1)
        fp == IF hasDot THEN SubSeq(t, i + 1, f - 1) ELSE <<>>
    IN  IF ip = <<>> /\ fp = <<>> THEN NaN
        ELSE [num |-> parseInt(ip) * Pow10(Len(fp)) + parseInt(fp),
              den |-> Pow10(Len(fp))]

One == [num |-> 1, den |-> 1]

parseGridSize(s) ==
    LET sizeMatch == SizeMatch(s)
        distMatch == DistMatch(s)
    IN  [width  |-> IF sizeMatch.matched THEN parseInt(sizeMatch.g1) ELSE 7,
         height |-> IF sizeMatch.matched THEN parseInt(sizeMatch.g2) ELSE 7,
         spanKm |-> IF distMatch.matched THEN parseFloat(distMatch.g1) ELSE One]


\* Fractions are compared by value.
FracEq(a, b) == a # NaN /\ b # NaN /\ a.num * b.den = b.num * a.den

--------------------------------------------------------------------------
(* The texts parseGridSize is applied to: a size part and a distance part *)
(* between an optional prefix and an optional suffix.  Each part says      *)
(* whether it is written as the pattern "<columns> x <rows> (<spanKm> km)" *)
(* asks (wf), whether a reader finds a "<digits> x <digits>", respectively *)
(* a "(<digits and points> km)", in it (has), and the numbers read from it *)
(* (den = 0: the digits and points start with no number).                  *)

SizeParts ==
    { [txt |-> <<>>,
       wf |-> FALSE, has |-> FALSE, w |-> 0,  h |-> 0],
      [txt |-> <<"5", " ", "x", " ", "5">>,
       wf |-> TRUE,  has |-> TRUE,  w |-> 5,  h |-> 5],
      [txt |-> <<"3", "x", "2">>,
       wf |-> TRUE,  has |-> TRUE,  w |-> 3,  h |-> 2],
      [txt |-> <<"1", "5", " ", "x", " ", "1", "1">>,
       wf |-> TRUE,  has |-> TRUE,  w |-> 15, h |-> 11],
      [txt |-> <<"0", " ", " ", "x", "5">>,
       wf |-> TRUE,  has |-> TRUE,  w |-> 0,  h |-> 5],
      [txt |-> <<"5", " ", "x">>,
       wf |-> FALSE, has |-> FALSE, w |-> 0,  h |-> 0],
      [txt |-> <<"5", " ", "X", " ", "5">>,
       wf |-> FALSE, has |-> FALSE, w |-> 0,  h |-> 0],
      [txt |-> <<"5", " ", "b", "y", " ", "5">>,
       wf |-> FALSE, has |-> FALSE, w |-> 0,  h |-> 0] }

DistParts ==
    { [txt |-> <<>>,
       wf |-> FALSE, has |-> FALSE, num |-> 0, den |-> 0],
      [txt |-> <<"(", "2", " ", "k", "m", ")">>,
       wf |-> TRUE,  has |-> TRUE,  num |-> 2, den |-> 1],
      [txt |-> <<"(", "0", ".", "5", "k", "m", ")">>,
       wf |-> TRUE,  has |-> TRUE,  num |-> 1, den |-> 2],
      [txt |-> <<"(", "1", ".", "5", " ", " ", "k", "m", ")">>,
       wf |-> TRUE,  has |-> TRUE,  num |-> 3, den |-> 2],
      [txt |-> <<"(", "1", ".", "2", ".", "3", " ", "k", "m", ")">>,
       wf |-> FALSE, has |-> TRUE,  num |-> 6, den |-> 5],
      [txt |-> <<"(", ".", " ", "k", "m", ")">>,
       wf |-> FALSE, has |-> TRUE,  num |-> 0, den |-> 0],
      [txt |-> <<"[", "2", " ", "k", "m", "]">>,
       wf |-> FALSE, has |-> FALSE, num |-> 0, den |-> 0],
      [txt |-> <<"(", "2", " ", "m", "i", ")">>,
       wf |-> FALSE, has |-> FALSE, num |-> 0, den |-> 0] }

Prefixes == { <<>>, <<"g", "r", "i", "d", " ">>, <<"7", " ">> }

Suffixes == { <<>>, <<" ", "!">> }

\* Size part and distance part are one blank apart, as in the spec's pattern.
Compose(pre, sz, ds, suf) == pre \o sz.txt \o <<" ">> \o ds.txt \o suf

GarbageInput ==
    <<"g", "a", "r", "b", "a", "g", "e", " ", "i", "n", "p", "u", "t">>

ParseTexts ==
    {GarbageInput} \cup
    { Compose(pre, sz, ds, suf) :
        pre \in Prefixes, sz \in SizeParts, ds \in DistParts, suf \in Suffixes }

\* The scan's variables while only parseGridSize is exercised.
\* The three insights of the ResultsSidebar.
InsightTypes == {"ranking", "competitor", "review"}

\* { status: 'idle', content: null, sources: [] } for each type.  In place
\* of the content an insight carries whether the fetch that produced it was
\* started before the insights were last reset (stale).
initialInsights == [t \in InsightTypes |-> [status |-> "idle", stale |-> FALSE]]

\* The SettingsSidebar as it is mounted: no text typed, no timeout set.
SearchIdle ==
    /\ inputValue = <<>>
    /\ timers = {}
    /\ searches = <<>>
    /\ now = 0

\* The App as it is mounted, before any scan: nothing scanned, no history.
AppIdle ==
    /\ app = "idle"
    /\ discovery = "none"
    /\ isScanning = FALSE
    /\ scanCompleted = FALSE
    /\ scanResult = Null
    /\ scanProgress = Null
    /\ scanHistory = <<>>
    /\ cancelRequested = FALSE
    /\ stored = Null
    /\ clock = 0
    /\ ops = 0
    /\ insights = initialInsights
    /\ fetches = {}
    /\ SearchIdle

ScanIdle ==
    /\ AppIdle
    /\ unjittered = TRUE
    /\ previous = Null
    /\ settings = [location |-> Null, gridSize |-> <<>>]
    /\ competitors = <<>>
    /\ sources = <<>>
    /\ pc = "idle"
    /\ grid = Null
    /\ r = 0
    /\ c = 0
    /\ rankings = <<>>
    /\ progress = <<>>
    /\ result = Null

ParseInit ==
    /\ gridSize \in ParseTexts
    /\ parsed = Null
    /\ ScanIdle

\* One call parseGridSize(gridSize).
Parse ==
    /\ parsed = Null
    /\ parsed' = parseGridSize(gridSize)
    /\ UNCHANGED <<gridSize, scanVars>>

ParseNext == Parse

SpecParse == ParseInit /\ [][ParseNext]_vars


--------------------------------------------------------------------------
(* C10: parseGridSize                                                      *)

Fallback == [width |-> 7, height |-> 7, spanKm |-> One]

\* The text is written as "<columns> x <rows> (<spanKm> km)" and nothing else.
WholePattern(s) ==
    \E sz \in SizeParts, ds \in DistParts :
        sz.wf /\ ds.wf /\ s = Compose(<<>>, sz, ds, <<>>)

\* What the two parts of a text give: columns and rows of the size part, or
\* 7 and 7 when it holds none, whatever the distance part is; spanKm of the
\* distance part, NaN when its digits and points start with no number, or 1
\* when it holds none, whatever the size part is.
PartsGive(sz, ds, res) ==
    /\ res.width = (IF sz.has THEN sz.w ELSE 7)
    /\ res.height = (IF sz.has THEN sz.h ELSE 7)
    /\ IF ~ds.has THEN res.spanKm = One
       ELSE IF ds.den = 0 THEN res.spanKm = NaN
       ELSE FracEq(res.spanKm, [num |-> ds.num, den |-> ds.den])

\* C10 as amended: parseGridSize reads columns and rows from the first
\* "<digits> x <digits>" found anywhere in the text (7 and 7 when there is
\* none) and, independently, spanKm from the first "(<digits and points> km)"
\* found anywhere in it (1 when there is none, NaN when the digits and points
\* start with no number); a text written as the whole pattern gives its three
\* numbers, and "garbage input" gives (7, 7, 1).
C10_ParseReadsEachPartAlone ==
    parsed # Null =>
        /\ gridSize = GarbageInput => parsed = Fallback
        /\ \A pre \in Prefixes, sz \in SizeParts, ds \in DistParts, suf \in Suffixes :
              gridSize = Compose(pre, sz, ds, suf) => PartsGive(sz, ds, parsed)

\* C10 as claimed: every text that is not written as the whole pattern gives
\* the fallback (7, 7, 1).
C10_FallbackUnlessWholePattern ==
    (parsed # Null /\ ~WholePattern(gridSize)) => parsed = Fallback

\* "5 x 5 " (no distance) has been parsed to (5, 5, 1), and so has
\* "grid 5 x 5 (2 km) !" to (5, 5, 2).
C10_Witness ==
    /\ parsed # Null
    /\ \/ /\ gridSize = <<"5", " ", "x", " ", "5", " ">>
          /\ parsed = [width |-> 5, height |-> 5, spanKm |-> One]
       \/ /\ gridSize = <<"g", "r", "i", "d", " ", "5", " ", "x", " ", "5", " ",
                          "(", "2", " ", "k", "m", ")", " ", "!">>
          /\ parsed = [width |-> 5, height |-> 5, spanKm |-> [num |-> 2, den |-> 1]]


--------------------------------------------------------------------------
(* generateScanResults: inputs                                             *)

\* The most columns (and rows) of a grid the model scans.
MaxDim == 2

\* The most grid points of a grid the model scans.
MaxPoints == 4

Max(a, b) == IF a >= b THEN a ELSE b

Abs(a) == IF a >= 0 THEN a ELSE 0 - a

\* A Business: its id and its coordinates (name and address play no part in
\* a scan).
Biz(id, lat, lng) == [id |-> id, latitude |-> lat, longitude |-> lng]

\* The target business.
Target == Biz("t", 5000, -3000)

\* Businesses competitor discovery may return: two others, and one that
\* carries the target's own id (the answer is taken as it comes, see
\* getCompetitorList).
CompA == Biz("a", 5300, -3000)

CompB == Biz("b", 5000, -3400)

CompT == Biz("t", 5200, -2800)

\* The competitor lists the model scans with: none, one, two, twice the same
\* id, the target's own id among the competitors, and a list with an entry
\* that is null.
CompetitorLists ==
    { <<>>, <<CompA>>, <<CompA, CompB>>, <<CompB, CompA>>,
      <<CompA, CompA>>, <<CompT>>, <<CompT, CompA>>, <<CompA, Null>> }

\* The grounding sources a discovery can come with: none, or two.
SourceLists ==
    { <<>>,
      <<[uri |-> "maps/a", title |-> "a"], [uri |-> "web/b", title |-> ""]>> }

DigitChar(n) ==
    CASE n = 0 -> "0" [] n = 1 -> "1" [] n = 2 -> "2" [] n = 3 -> "3"
      [] n = 4 -> "4" [] n = 5 -> "5" [] n = 6 -> "6" [] n = 7 -> "7"
      [] n = 8 -> "8" [] n = 9 -> "9"

\* The grid-size texts the model scans with: "<w> x <h> (1.2 km)" for the
\* grids of at most MaxDim columns and rows and at most MaxPoints points,
\* zero columns or rows included.
GridText(w, h) ==
    <<DigitChar(w), " ", "x", " ", DigitChar(h), " ",
      "(", "1", ".", "2", " ", "k", "m", ")">>

\* Texts for a grid of a single point: spans of 0, 4 and 2.5 km, and no
\* span at all.
OnePointTexts ==
    { <<"1", " ", "x", " ", "1">> \o span :
        span \in { <<>>,
                   <<" ", "(", "0", " ", "k", "m", ")">>,
                   <<" ", "(", "4", " ", "k", "m", ")">>,
                   <<" ", "(", "2", ".", "5", " ", "k", "m", ")">> } }

ScanTexts ==
    { GridText(d[1], d[2]) :
        d \in {e \in (0..MaxDim) \X (0..MaxDim) : e[1] * e[2] <= MaxPoints} }
    \cup OnePointTexts

\* The values Math.random() * 0.4 + 0.8 takes in the model, in tenths (the
\* factor lies in [0.8, 1.2)).
Jitters == {8, 10, 11}

--------------------------------------------------------------------------
(* generateScanResults: the grid                                           *)

totalPoints == grid.width * grid.height

maxDimension == Max(grid.width, grid.height)

\* Faulty variant of stepM: the span is divided by the points of the longer
\* side, not by the intervals between them, with no case for a single point.
stepMOfDimension ==
    IF maxDimension > 0
    THEN (1000 * grid.spanKm.num) \div (grid.spanKm.den * maxDimension)
    ELSE 0

\* stepKm in metres: spanKm / (maxDimension - 1), or 0 for a single row and
\* column.  The division is exact for the spans and grids of the model.
stepM ==
    IF maxDimension > 1
    THEN (1000 * grid.spanKm.num) \div (grid.spanKm.den * (maxDimension - 1))
    ELSE 0

\* Faulty variant of startLat: half the rows, not half the row intervals.
startLatFromHeight == settings.location.latitude + grid.height * stepM

\* stepLat and stepLng are stepKm over the kilometres of a degree, that is
\* stepM in the units of the model; coordinates are kept doubled.
startLat == settings.location.latitude + (grid.height - 1) * stepM

startLng == settings.location.longitude - (grid.width - 1) * stepM

\* Faulty variant of pointId: the row is scaled by the number of rows.
pointIdByHeight == r * grid.height + c

pointId == r * grid.width + c

\* Faulty variant of lat: the latitude steps with the column.
latByColumn == startLat - c * 2 * stepM

lat == startLat - r * 2 * stepM

\* Faulty variant of lng: the columns run westward from the corner.
lngWestward == startLng - c * 2 * stepM

lng == startLng + c * 2 * stepM

allBusinesses == <<settings.location>> \o competitors

\* A candidate that is null (the discovered list is JSON the model answered
\* with, passed on as it was parsed).
HasNullEntry == \E i \in 1..Len(allBusinesses) : allBusinesses[i] = Null

--------------------------------------------------------------------------
(* generateScanResults: scoring one grid point                             *)

\* getDistanceKm, in doubled metres.  The haversine formula needs sines and
\* cosines; over the few hundred metres of a grid the model takes the
\* distance along the two axes, which like the great-circle distance is 0
\* exactly for equal coordinates, symmetric and grows with the separation.
getDistanceKm(lat1, lon1, lat2, lon2) == Abs(lat2 - lat1) + Abs(lon2 - lon1)

\* (1 / (distance + 0.1)) * jitter as a fraction: with the distance d in
\* doubled metres and the jitter j in tenths it is 200 j / (d + 200).
Score(business, j) ==
    [num |-> 200 * j,
     den |-> getDistanceKm(lat, lng, business.latitude, business.longitude) + 200]

\* Faulty variant of ScoreBefore: an item also sorts before one of equal
\* score, as with an unstable sort that reverses ties.
ScoreNotAfter(a, b) == a.score.num * b.score.den >= b.score.num * a.score.den

\* The comparator (a, b) => b.score - a.score is negative.
ScoreBefore(a, b) == a.score.num * b.score.den > b.score.num * a.score.den

RECURSIVE InsertByScore(_, _)
\* x put into the sorted list s behind every item that does not sort after it.
InsertByScore(s, x) ==
    IF s = <<>> THEN <<x>>
    ELSE IF ScoreBefore(x, s[Len(s)])
         THEN InsertByScore(SubSeq(s, 1, Len(s) - 1), x) \o <<s[Len(s)]>>
         ELSE s \o <<x>>

RECURSIVE SortByScore(_)
\* Array.prototype.sort with that comparator: descending by score, and
\* stable (items of equal score keep their order).
SortByScore(s) ==
    IF s = <<>> THEN <<>>
    ELSE InsertByScore(SortByScore(SubSeq(s, 1, Len(s) - 1)), s[Len(s)])

\* businessScores after the sort, for the jitters js (one per business).
businessScores(js) ==
    SortByScore([i \in 1..Len(allBusinesses) |->
        [business |-> allBusinesses[i], score |-> Score(allBusinesses[i], js[i])]])

\* Faulty variant of CompetitorRanks: the rank is the index itself, from 0.
CompetitorRanksFromZero(sorted) ==
    [i \in 1..Len(sorted) |-> [rank |-> i - 1, business |-> sorted[i].business]]

\* competitorRanks: rank index + 1 for the item at index.
CompetitorRanks(sorted) ==
    [i \in 1..Len(sorted) |-> [rank |-> i, business |-> sorted[i].business]]

\* Faulty variant of targetBusinessRank: findIndex(...) || 21, the index for the rank.
targetBusinessRankByIndex(crs) ==
    LET hits == {i \in 1..Len(crs) : crs[i].business.id = settings.location.id}
        first == CHOOSE i \in hits : \A j \in hits : i <= j
    IN  IF hits = {} \/ first = 1 THEN 21 ELSE first - 1

\* competitorRanks.find(cr => cr.business.id === targetBusiness.id)?.rank || 21
targetBusinessRank(crs) ==
    LET hits == {i \in 1..Len(crs) : crs[i].business.id = settings.location.id}
    IN  IF hits = {} THEN 21
        ELSE crs[CHOOSE i \in hits : \A j \in hits : i <= j].rank

RankingPoint(js) ==
    LET crs == CompetitorRanks(businessScores(js))
    IN  [id |-> pointId, rank |-> targetBusinessRank(crs),
         lat |-> lat, lng |-> lng, competitorRanks |-> crs]


--------------------------------------------------------------------------
(* generateScanResults: the summary and the competitor list                *)

RECURSIVE SumRanks(_)
\* reduce((acc, curr) => acc + curr.rank, 0) over a list of items with a rank.
SumRanks(s) ==
    IF s = <<>> THEN 0 ELSE SumRanks(SubSeq(s, 1, Len(s) - 1)) + s[Len(s)].rank

totalRank == SumRanks(rankings)

\* totalRank / rankings.length; 0 / 0 is NaN.
averageRank ==
    IF Len(rankings) = 0 THEN NaN
    ELSE [num |-> totalRank, den |-> Len(rankings)]

\* Faulty variant of toFixed1: toFixed() with no digits, the nearest whole number.
toFixed0(x) ==
    IF x = NaN THEN NaN
    ELSE [num |-> 10 * ((2 * x.num + x.den) \div (2 * x.den)), den |-> 10]

\* parseFloat(x.toFixed(1)) of a fraction x >= 0: the nearest multiple of
\* 0.1, the larger one when x lies midway; NaN stays NaN.  (A quotient of
\* the model that lies midway is a multiple of 0.25, which a double holds
\* exactly, so that toFixed sees the tie.)
toFixed1(x) ==
    IF x = NaN THEN NaN
    ELSE [num |-> (20 * x.num + x.den) \div (2 * x.den), den |-> 10]

\* rankings.filter(r => r.rank <= n).length
CountWithin(n) == Cardinality({i \in 1..Len(rankings) : rankings[i].rank <= n})

top3 == CountWithin(3)

top10 == CountWithin(10)

RECURSIVE KeysOf(_)
\* The keys of businessRankSums in the order Object.values lists them: each
\* id where it was first assigned (the ids are no array indices).
KeysOf(bs) ==
    IF bs = <<>> THEN <<>>
    ELSE LET front == KeysOf(SubSeq(bs, 1, Len(bs) - 1))
             id == bs[Len(bs)].id
         IN  IF \E i \in 1..Len(front) : front[i] = id
             THEN front ELSE front \o <<id>>

\* The business an id's entry holds: the last one assigned under that id.
LastWithId(id) ==
    allBusinesses[CHOOSE i \in 1..Len(allBusinesses) :
        /\ allBusinesses[i].id = id
        /\ \A j \in 1..Len(allBusinesses) : allBusinesses[j].id = id => j <= i]

RECURSIVE SumRanksOfId(_, _)
\* The ranks of the entries of one ranking list that carry the id, summed.
SumRanksOfId(crs, id) ==
    IF crs = <<>> THEN 0
    ELSE SumRanksOfId(SubSeq(crs, 1, Len(crs) - 1), id)
         + (IF crs[Len(crs)].business.id = id THEN crs[Len(crs)].rank ELSE 0)

RECURSIVE TotalOfId(_, _)
\* businessRankSums[id].total after the points of rs.
TotalOfId(rs, id) ==
    IF rs = <<>> THEN 0
    ELSE TotalOfId(SubSeq(rs, 1, Len(rs) - 1), id)
         + SumRanksOfId(rs[Len(rs)].competitorRanks, id)

RECURSIVE CountOfId(_, _)
\* businessRankSums[id].count after the points of rs.
CountOfId(rs, id) ==
    IF rs = <<>> THEN 0
    ELSE CountOfId(SubSeq(rs, 1, Len(rs) - 1), id)
         + Cardinality({i \in 1..Len(rs[Len(rs)].competitorRanks) :
                          rs[Len(rs)].competitorRanks[i].business.id = id})

\* Object.values(businessRankSums) once the rankings are added up.
businessRankSums ==
    LET keys == KeysOf(allBusinesses)
    IN  [i \in 1..Len(keys) |->
            [total |-> TotalOfId(rankings, keys[i]),
             count |-> CountOfId(rankings, keys[i]),
             business |-> LastWithId(keys[i])]]

\* Faulty variant of Standing: the total is divided by rankings.length.
StandingOverPoints(data) ==
    [id |-> data.business.id,
     latitude |-> data.business.latitude,
     longitude |-> data.business.longitude,
     averageRank |-> IF Len(rankings) > 0
                     THEN [num |-> data.total, den |-> Len(rankings)]
                     ELSE [num |-> 99, den |-> 1]]

\* { ...data.business, averageRank: data.count > 0 ? data.total / data.count : 99 }
Standing(data) ==
    [id |-> data.business.id,
     latitude |-> data.business.latitude,
     longitude |-> data.business.longitude,
     averageRank |-> IF data.count > 0
                     THEN [num |-> data.total, den |-> data.count]
                     ELSE [num |-> 99, den |-> 1]]

\* Faulty variant of AverageBefore: the comparator b.averageRank - a.averageRank.
AverageBeforeDescending(a, b) ==
    a.averageRank.num * b.averageRank.den > b.averageRank.num * a.averageRank.den

\* The comparator (a, b) => a.averageRank - b.averageRank is negative.
AverageBefore(a, b) ==
    a.averageRank.num * b.averageRank.den < b.averageRank.num * a.averageRank.den

RECURSIVE InsertByAverage(_, _)
InsertByAverage(s, x) ==
    IF s = <<>> THEN <<x>>
    ELSE IF AverageBefore(x, s[Len(s)])
         THEN InsertByAverage(SubSeq(s, 1, Len(s) - 1), x) \o <<s[Len(s)]>>
         ELSE s \o <<x>>

RECURSIVE SortByAverage(_)
\* Array.prototype.sort with that comparator: ascending, and stable.
SortByAverage(s) ==
    IF s = <<>> THEN <<>>
    ELSE InsertByAverage(SortByAverage(SubSeq(s, 1, Len(s) - 1)), s[Len(s)])

sortedCompetitorList ==
    SortByAverage([i \in 1..Len(businessRankSums) |-> Standing(businessRankSums[i])])

\* Faulty variant of ScanResult: the sources are left out of the result.
ScanResultWithoutSources ==
    [summary |-> [averageRank |-> toFixed1(averageRank),
                  top3 |-> top3,
                  top10 |-> top10],
     rankings |-> rankings,
     gridSize |-> settings.gridSize,
     competitors |-> sortedCompetitorList,
     sources |-> <<>>]

\* The ScanResult returned.
ScanResult ==
    [summary |-> [averageRank |-> toFixed1(averageRank),
                  top3 |-> top3,
                  top10 |-> top10],
     rankings |-> rankings,
     gridSize |-> settings.gridSize,
     competitors |-> sortedCompetitorList,
     sources |-> sources]

--------------------------------------------------------------------------
(* generateScanResults: the call, step by step                             *)

Init ==
    /\ gridSize = <<>>
    /\ parsed = Null
    /\ settings \in [location : {Target, Null}, gridSize : ScanTexts]
    /\ competitors \in CompetitorLists
    /\ sources \in SourceLists
    /\ pc = "idle"
    /\ grid = Null
    /\ r = 0
    /\ c = 0
    /\ rankings = <<>>
    /\ progress = <<>>
    /\ result = Null
    /\ unjittered = TRUE
    /\ previous = Null
    /\ AppIdle

\* Faulty variant of Begin: rankings is kept outside the function and never
\* emptied, so that a later call appends to the points of an earlier one.
BeginKeepsRankings ==
    /\ pc = "idle"
    /\ IF settings.location = Null
       THEN pc' = "thrown" /\ UNCHANGED <<grid, r, c, rankings>>
       ELSE /\ grid' = parseGridSize(settings.gridSize)
            /\ rankings' = rankings
            /\ r' = 0
            /\ c' = 0
            /\ pc' = IF grid'.width > 0 /\ grid'.height > 0
                     THEN "sleep" ELSE "aggregate"
    /\ UNCHANGED <<parseVars, settings, competitors, sources, progress, result,
                   unjittered, previous, scanProgress, appVars>>

\* Faulty variant of Begin: without a location the call returns a result
\* over no points instead of throwing.
BeginReturnsEmpty ==
    /\ pc = "idle"
    /\ IF settings.location = Null
       THEN /\ pc' = "returned"
            /\ result' = [summary |-> [averageRank |-> NaN, top3 |-> 0, top10 |-> 0],
                          rankings |-> <<>>,
                          gridSize |-> settings.gridSize,
                          competitors |-> <<>>,
                          sources |-> sources]
            /\ UNCHANGED <<grid, r, c, rankings>>
       ELSE /\ grid' = parseGridSize(settings.gridSize)
            /\ rankings' = <<>>
            /\ r' = 0
            /\ c' = 0
            /\ pc' = IF grid'.width > 0 /\ grid'.height > 0
                     THEN "sleep" ELSE "aggregate"
            /\ result' = result
    /\ UNCHANGED <<parseVars, settings, competitors, sources, progress,
                   unjittered, previous, scanProgress, appVars>>

\* The call up to the loops: the location check, parseGridSize, the empty
\* rankings.  With no row or no column the loops run no iteration.
Begin ==
    /\ pc = "idle"
    /\ IF settings.location = Null
       THEN pc' = "thrown" /\ UNCHANGED <<grid, r, c, rankings>>
       ELSE /\ grid' = parseGridSize(settings.gridSize)
            /\ rankings' = <<>>
            /\ r' = 0
            /\ c' = 0
            /\ pc' = IF grid'.width > 0 /\ grid'.height > 0
                     THEN "sleep" ELSE "aggregate"
    /\ UNCHANGED <<parseVars, settings, competitors, sources, progress, result,
                   unjittered, previous, scanProgress, appVars>>

\* sleep(10) resolves and the iteration goes on with
\* onProgress({ current: pointId + 1, total: totalPoints }).
Tick ==
    /\ pc = "sleep"
    /\ progress' = Append(progress, [current |-> pointId + 1, total |-> totalPoints])
    /\ scanProgress' = IF app = "scan"
                       THEN [current |-> pointId + 1, total |-> totalPoints]
                       ELSE scanProgress
    /\ pc' = "score"
    /\ UNCHANGED <<parseVars, settings, competitors, sources, grid, r, c, rankings, result,
                   unjittered, previous, appVars>>

\* Faulty variant of ScorePoint: the inner loop runs while c < height.
ScorePointColumnsByHeight ==
    /\ pc = "score"
    /\ IF HasNullEntry
       THEN pc' = "thrown" /\ UNCHANGED <<r, c, rankings, unjittered>>
       ELSE /\ \E js \in [1..Len(allBusinesses) -> Jitters] :
                  /\ rankings' = Append(rankings, RankingPoint(js))
                  /\ unjittered' = (unjittered /\ \A i \in DOMAIN js : js[i] = 10)
            /\ IF c + 1 < grid.height
               THEN c' = c + 1 /\ r' = r /\ pc' = "sleep"
               ELSE /\ c' = 0
                    /\ r' = r + 1
                    /\ pc' = IF r + 1 < grid.height THEN "sleep" ELSE "aggregate"
    /\ UNCHANGED <<parseVars, settings, competitors, sources, grid, progress,
                   result, previous, scanProgress, appVars>>

\* The rest of the iteration, in the same turn as the tick: the scores (one
\* Math.random() per business), the sort, the ranks, rankings.push, and the
\* step of the two loops.  business.latitude of an entry that is null is a
\* TypeError, which nothing in the loop catches: the call rejects.
ScorePoint ==
    /\ pc = "score"
    /\ IF HasNullEntry
       THEN pc' = "thrown" /\ UNCHANGED <<r, c, rankings, unjittered>>
       ELSE /\ \E js \in [1..Len(allBusinesses) -> Jitters] :
                  /\ rankings' = Append(rankings, RankingPoint(js))
                  /\ unjittered' = (unjittered /\ \A i \in DOMAIN js : js[i] = 10)
            /\ IF c + 1 < grid.width
               THEN c' = c + 1 /\ r' = r /\ pc' = "sleep"
               ELSE /\ c' = 0
                    /\ r' = r + 1
                    /\ pc' = IF r + 1 < grid.height THEN "sleep" ELSE "aggregate"
    /\ UNCHANGED <<parseVars, settings, competitors, sources, grid, progress,
                   result, previous, scanProgress, appVars>>

\* After the loops: the summary, the competitor list, the return.  When no
\* point was scanned, b.id of an entry that is null is the TypeError.
Aggregate ==
    /\ pc = "aggregate"
    /\ IF HasNullEntry
       THEN pc' = "thrown" /\ result' = result
       ELSE result' = ScanResult /\ pc' = "returned"
    /\ UNCHANGED <<parseVars, settings, competitors, sources, grid, r, c, rankings, progress,
                   unjittered, previous, scanProgress, appVars>>

Next == Begin \/ Tick \/ ScorePoint \/ Aggregate

Spec == Init /\ [][Next]_vars

--------------------------------------------------------------------------
(* generateScanResults called twice with the same arguments                *)

\* A call in which every jitter factor came out as 1 has returned and the
\* caller calls again, with the settings, the competitors and the sources of
\* the first call and a sink of its own; what the first call returned is
\* kept for comparison.  The second call draws its jitters as any call does.
Recall ==
    /\ pc = "returned"
    /\ previous = Null
    /\ unjittered
    /\ previous' = result
    /\ pc' = "idle"
    /\ grid' = Null
    /\ progress' = <<>>
    /\ result' = Null
    /\ UNCHANGED <<parseVars, settings, competitors, sources, r, c,
                   rankings, unjittered, scanProgress, appVars>>

TwiceNext == Begin \/ Tick \/ ScorePoint \/ Aggregate \/ Recall

SpecTwice == Init /\ [][TwiceNext]_vars

--------------------------------------------------------------------------
(* App: one activation of handleScan                                       *)

Min(a, b) == IF a <= b THEN a ELSE b

\* How a call of getCompetitorList can end: with the array parsed from the
\* answer, with an answer that holds no array, with an array that does not
\* parse, or with the API call throwing.
DiscoveryOutcomes == {"ok", "noJson", "parseError", "apiError"}

\* The App with the settings the user has made and no scan started yet.
AppInit ==
    /\ gridSize = <<>>
    /\ parsed = Null
    /\ settings \in [location : {Target, Null}, gridSize : ScanTexts]
    /\ competitors = <<>>
    /\ sources = <<>>
    /\ pc = "idle"
    /\ grid = Null
    /\ r = 0
    /\ c = 0
    /\ rankings = <<>>
    /\ progress = <<>>
    /\ result = Null
    /\ unjittered = TRUE
    /\ previous = Null
    /\ AppIdle

\* A reset of the insights: every type is idle again, and the fetches still
\* waiting for their answer were started before the reset.
staleFetches == { [type |-> f.type, stale |-> TRUE] : f \in fetches }

\* handleScan up to its first await: nothing without a location, else the
\* scan state is reset and getCompetitorList is called.  The Start control
\* is in the SettingsSidebar, shown while scanResult is null, and disabled
\* while isScanning or without a location.  The activation has locals of
\* its own.  The user gives at most limit commands.
HandleScanWithin(limit) ==
    /\ ops < limit
    /\ ~isScanning
    /\ scanResult = Null
    /\ settings.location # Null
    /\ ops' = ops + 1
    /\ isScanning' = TRUE
    /\ scanCompleted' = FALSE
    /\ scanResult' = Null
    /\ insights' = initialInsights
    /\ fetches' = staleFetches
    /\ app' = "discover"
    /\ discovery' = "none"
    /\ competitors' = <<>>
    /\ sources' = <<>>
    /\ pc' = "idle"
    /\ grid' = Null
    /\ r' = 0
    /\ c' = 0
    /\ rankings' = <<>>
    /\ progress' = <<>>
    /\ result' = Null
    /\ unjittered' = TRUE
    /\ cancelRequested' = FALSE
    /\ UNCHANGED <<parseVars, settings, previous, scanProgress, scanHistory,
                   stored, clock, searchVars>>

\* The one activation of handleScan.
HandleScan == HandleScanWithin(1)

\* Faulty variant of Discover: a failed discovery is thrown on to handleScan,
\* whose catch ends the activation.
DiscoverRethrows ==
    /\ app = "discover"
    /\ \E outcome \in DiscoveryOutcomes :
          /\ discovery' = outcome
          /\ sources' \in IF outcome = "apiError" THEN {<<>>} ELSE SourceLists
          /\ IF outcome = "ok"
             THEN /\ competitors' \in CompetitorLists
                  /\ app' = "scan"
                  /\ UNCHANGED <<isScanning, scanProgress>>
             ELSE /\ competitors' = <<>>
                  /\ app' = "done"
                  /\ isScanning' = FALSE
                  /\ scanProgress' = Null
    /\ UNCHANGED <<parseVars, settings, pc, grid, r, c, rankings,
                   progress, result, unjittered, previous, scanCompleted,
                   scanResult, scanHistory, cancelRequested, uiVars>>

\* getCompetitorList resolves, and handleScan goes on to call
\* generateScanResults with the businesses and the sources it got.  Every
\* failure inside getCompetitorList is caught there and answered with no
\* businesses; the sources are those of the answer, none when the API call
\* threw.  lists are the arrays an answer can hold.
DiscoverFrom(lists) ==
    /\ app = "discover"
    /\ \E outcome \in DiscoveryOutcomes :
          /\ discovery' = outcome
          /\ sources' \in IF outcome = "apiError" THEN {<<>>} ELSE SourceLists
          /\ IF outcome = "ok"
             THEN competitors' \in lists
             ELSE competitors' = <<>>
    /\ app' = "scan"
    /\ UNCHANGED <<parseVars, settings, pc, grid, r, c, rankings,
                   progress, result, unjittered, previous, isScanning,
                   scanCompleted, scanResult, scanProgress, scanHistory,
                   cancelRequested, uiVars>>

Discover == DiscoverFrom(CompetitorLists)

\* generateScanResults as handleScan runs it.
AppScan ==
    /\ app = "scan"
    /\ (Begin \/ Tick \/ ScorePoint \/ Aggregate)

\* JSON.parse(JSON.stringify(result)): NaN is written as null, every other
\* value of a result comes back as it was.
JsonResult(res) ==
    [res EXCEPT !.summary.averageRank = IF @ = NaN THEN Null ELSE @]

\* What localStorage holds after setItem('gmbScanHistory', JSON.stringify(h)).
JsonHistory(h) == [i \in 1..Len(h) |-> [h[i] EXCEPT !.result = JsonResult(@)]]

\* The entry handleScan puts in front of the history; its id is the instant
\* of new Date() (the timestamp, the same instant, is left out).
newHistoryItem == [id |-> clock + 1, settings |-> settings, result |-> result]

\* Faulty variant of newHistory: prev.slice(0, 10).
newHistoryOfEleven ==
    <<newHistoryItem>> \o SubSeq(scanHistory, 1, Min(10, Len(scanHistory)))

\* [newHistoryItem, ...prev.slice(0, 9)]
newHistory == <<newHistoryItem>> \o SubSeq(scanHistory, 1, Min(9, Len(scanHistory)))

\* Faulty variant of Complete: the finally block does not clear the progress.
CompleteKeepsProgress ==
    /\ app = "scan"
    /\ pc = "returned"
    /\ scanResult' = result
    /\ scanCompleted' = TRUE
    /\ clock' = clock + 1
    /\ scanHistory' = newHistory
    /\ stored' = JsonHistory(newHistory)
    /\ isScanning' = FALSE
    /\ app' = "done"
    /\ UNCHANGED <<parseVars, settings, competitors, sources, pc, grid, r, c,
                   rankings, progress, result, unjittered, previous,
                   discovery, cancelRequested, ops, insights, fetches,
                   searchVars, scanProgress>>

\* generateScanResults has resolved: the result is stored and put in front
\* of the nine latest entries of the history, which is written to
\* localStorage, then the finally block.
Complete ==
    /\ app = "scan"
    /\ pc = "returned"
    /\ scanResult' = result
    /\ scanCompleted' = TRUE
    /\ clock' = clock + 1
    /\ scanHistory' = newHistory
    /\ stored' = JsonHistory(newHistory)
    /\ isScanning' = FALSE
    /\ scanProgress' = Null
    /\ app' = "done"
    /\ UNCHANGED <<parseVars, settings, competitors, sources, pc, grid, r, c,
                   rankings, progress, result, unjittered, previous,
                   discovery, cancelRequested, ops, insights, fetches,
                   searchVars>>

\* Faulty variant of Fail: the failed scan is announced as completed.
FailMarksCompleted ==
    /\ app = "scan"
    /\ pc = "thrown"
    /\ isScanning' = FALSE
    /\ scanProgress' = Null
    /\ scanCompleted' = TRUE
    /\ app' = "done"
    /\ UNCHANGED <<parseVars, settings, competitors, sources, pc, grid, r, c,
                   rankings, progress, result, unjittered, previous,
                   discovery, scanResult, scanHistory, cancelRequested,
                   uiVars>>

\* generateScanResults has rejected: the catch logs, then the finally block.
Fail ==
    /\ app = "scan"
    /\ pc = "thrown"
    /\ isScanning' = FALSE
    /\ scanProgress' = Null
    /\ app' = "done"
    /\ UNCHANGED <<parseVars, settings, competitors, sources, pc, grid, r, c,
                   rankings, progress, result, unjittered, previous,
                   discovery, scanCompleted, scanResult, scanHistory,
                   cancelRequested, uiVars>>

\* The user asks for the running scan to stop.  handleScan hands
\* generateScanResults no signal and neither reads any state while it runs:
\* the request changes nothing a scan looks at.
RequestCancel ==
    /\ isScanning
    /\ ~cancelRequested
    /\ cancelRequested' = TRUE
    /\ UNCHANGED <<parseVars, settings, competitors, sources, pc, grid, r, c,
                   rankings, progress, result, unjittered, previous,
                   scanProgress, app, discovery, isScanning, scanCompleted,
                   scanResult, scanHistory, uiVars>>

AppNext == HandleScan \/ Discover \/ AppScan \/ Complete \/ Fail \/ RequestCancel

SpecApp == AppInit /\ [][AppNext]_vars

--------------------------------------------------------------------------
(* App: a session of scans, history loads and deletions, insight fetches   *)

\* The commands the user gives in a session of the model.
MaxOps == 3

\* The grid sizes and the discovered lists of a session: the select offers
\* grids of at least three columns and rows, for which a row of two points
\* stands here (a loaded entry brings the grid of one point); no competitor,
\* one, and a list with a null entry.
SessionTexts == {GridText(2, 1)}

SessionLists == {<<>>, <<CompA>>, <<CompA, Null>>}

\* An entry stored by an earlier session: a scan of the target alone over
\* one point, completed at instant k.
OldResult ==
    [summary |-> [averageRank |-> [num |-> 10, den |-> 10], top3 |-> 1, top10 |-> 1],
     rankings |-> <<[id |-> 0, rank |-> 1,
                     lat |-> Target.latitude, lng |-> Target.longitude,
                     competitorRanks |-> <<[rank |-> 1, business |-> Target]>>]>>,
     gridSize |-> GridText(1, 1),
     competitors |-> <<[id |-> Target.id, latitude |-> Target.latitude,
                        longitude |-> Target.longitude,
                        averageRank |-> [num |-> 1, den |-> 1]]>>,
     sources |-> <<>>]

OldItem(k) ==
    [id |-> k,
     settings |-> [location |-> Target, gridSize |-> GridText(1, 1)],
     result |-> OldResult]

\* n stored entries, newest first.
OldHistory(n) == [i \in 1..n |-> OldItem(n + 1 - i)]

\* The App as it is mounted over a localStorage of n entries: the effect
\* has parsed them into scanHistory; nothing is stored under the key when
\* no scan was ever kept.
MountedOver(n) ==
    /\ gridSize = <<>>
    /\ parsed = Null
    /\ settings \in [location : {Target}, gridSize : SessionTexts]
    /\ competitors = <<>>
    /\ sources = <<>>
    /\ pc = "idle"
    /\ grid = Null
    /\ r = 0
    /\ c = 0
    /\ rankings = <<>>
    /\ progress = <<>>
    /\ result = Null
    /\ unjittered = TRUE
    /\ previous = Null
    /\ app = "idle"
    /\ discovery = "none"
    /\ isScanning = FALSE
    /\ scanCompleted = FALSE
    /\ scanResult = Null
    /\ scanProgress = Null
    /\ cancelRequested = FALSE
    /\ scanHistory = OldHistory(n)
    /\ stored = IF n = 0 THEN Null ELSE OldHistory(n)
    /\ clock = n
    /\ ops = 0
    /\ insights = initialInsights
    /\ fetches = {}
    /\ SearchIdle

\* A first session, and one over a full history of ten entries.
SessionInit == \E n \in {0, 10} : MountedOver(n)

\* handleScan, as often as the user starts it.
SessionScan == HandleScanWithin(MaxOps)

SessionDiscover == DiscoverFrom(SessionLists)

\* Faulty variant of LoadScanFromHistory: the Load control is not disabled
\* while isScanning.
LoadWhileScanning ==
    /\ ops < MaxOps
    /\ scanResult = Null
    /\ \E i \in 1..Len(scanHistory) :
          /\ settings' = scanHistory[i].settings
          /\ scanResult' = scanHistory[i].result
    /\ scanCompleted' = TRUE
    /\ insights' = initialInsights
    /\ fetches' = staleFetches
    /\ ops' = ops + 1
    /\ UNCHANGED <<parseVars, competitors, sources, pc, grid, r, c, rankings,
                   progress, result, unjittered, previous, app, discovery,
                   isScanning, scanProgress, scanHistory, cancelRequested,
                   stored, clock, searchVars>>

\* loadScanFromHistory(item): the Load control of an entry, in the
\* SettingsSidebar and disabled while isScanning.
LoadScanFromHistory ==
    /\ ops < MaxOps
    /\ ~isScanning
    /\ scanResult = Null
    /\ \E i \in 1..Len(scanHistory) :
          /\ settings' = scanHistory[i].settings
          /\ scanResult' = scanHistory[i].result
    /\ scanCompleted' = TRUE
    /\ insights' = initialInsights
    /\ fetches' = staleFetches
    /\ ops' = ops + 1
    /\ UNCHANGED <<parseVars, competitors, sources, pc, grid, r, c, rankings,
                   progress, result, unjittered, previous, app, discovery,
                   isScanning, scanProgress, scanHistory, cancelRequested,
                   stored, clock, searchVars>>

\* deleteScanFromHistory(id): the Delete control of an entry, disabled
\* while isScanning.
DeleteScanFromHistory ==
    /\ ops < MaxOps
    /\ ~isScanning
    /\ scanResult = Null
    /\ \E i \in 1..Len(scanHistory) :
          LET kept == SelectSeq(scanHistory, LAMBDA item : item.id # scanHistory[i].id)
          IN  /\ scanHistory' = kept
              /\ stored' = JsonHistory(kept)
    /\ ops' = ops + 1
    /\ UNCHANGED <<parseVars, settings, competitors, sources, pc, grid, r, c,
                   rankings, progress, result, unjittered, previous, app,
                   discovery, isScanning, scanCompleted, scanResult,
                   scanProgress, cancelRequested, clock, insights, fetches,
                   searchVars>>

\* handleBackToSettings: the Back control of the ResultsSidebar, which is
\* shown while scanResult is not null.
HandleBackToSettings ==
    /\ ops < MaxOps
    /\ scanResult # Null
    /\ scanResult' = Null
    /\ scanCompleted' = FALSE
    /\ insights' = initialInsights
    /\ fetches' = staleFetches
    /\ ops' = ops + 1
    /\ UNCHANGED <<parseVars, settings, competitors, sources, pc, grid, r, c,
                   rankings, progress, result, unjittered, previous, app,
                   discovery, isScanning, scanProgress, scanHistory,
                   cancelRequested, stored, clock, searchVars>>

\* fetchInsights(type) up to its await: the control of an InsightAccordion,
\* shown while the insight is idle or in error.
FetchInsights ==
    /\ ops < MaxOps
    /\ settings.location # Null
    /\ scanResult # Null
    /\ \E type \in InsightTypes :
          /\ insights[type].status \in {"idle", "error"}
          /\ insights' = [insights EXCEPT ![type] = [status |-> "loading", stale |-> FALSE]]
          /\ fetches' = fetches \cup {[type |-> type, stale |-> FALSE]}
    /\ ops' = ops + 1
    /\ UNCHANGED <<parseVars, settings, competitors, sources, pc, grid, r, c,
                   rankings, progress, result, unjittered, previous, app,
                   discovery, isScanning, scanCompleted, scanResult,
                   scanProgress, scanHistory, cancelRequested, stored, clock,
                   searchVars>>

\* fetchInsights after its await: the insight call has resolved or rejected
\* and its answer is written to the insight of its type.
InsightAnswer ==
    /\ \E f \in fetches, status \in {"success", "error"} :
          /\ insights' = [insights EXCEPT ![f.type] = [status |-> status, stale |-> f.stale]]
          /\ fetches' = fetches \ {f}
    /\ UNCHANGED <<parseVars, settings, competitors, sources, pc, grid, r, c,
                   rankings, progress, result, unjittered, previous, app,
                   discovery, isScanning, scanCompleted, scanResult,
                   scanProgress, scanHistory, cancelRequested, stored, clock,
                   ops, searchVars>>

SessionNext ==
    \/ SessionScan
    \/ SessionDiscover
    \/ AppScan
    \/ Complete
    \/ Fail
    \/ LoadScanFromHistory
    \/ DeleteScanFromHistory
    \/ HandleBackToSettings
    \/ FetchInsights
    \/ InsightAnswer

SpecSession == SessionInit /\ [][SessionNext]_vars

--------------------------------------------------------------------------
(* SettingsSidebar: the location search                                    *)

RECURSIVE trim(_)
\* String.prototype.trim: the text without the spaces at its ends.
trim(q) ==
    IF q = <<>> THEN <<>>
    ELSE IF IsSpace(q[1]) THEN trim(SubSeq(q, 2, Len(q)))
    ELSE IF IsSpace(q[Len(q)]) THEN trim(SubSeq(q, 1, Len(q) - 1))
    ELSE q

\* The texts typed into the location box: two that are too short, one of
\* three spaces, and three that are long enough once trimmed.
SearchTexts ==
    { <<"b">>, <<"b", "a">>, <<" ", " ", " ">>,
      <<"b", "a", "r">>, <<"b", "a", "r", "b">>, <<" ", "b", "a", "r", " ">> }

\* setTimeout(..., 500)
DebounceMs == 500

\* The times, in milliseconds, the user lets pass between two events.
Pauses == {100, 200, 300}

\* What the location search neither reads nor writes.
besideSearch ==
    <<parseVars, competitors, sources, pc, grid, r, c, rankings, progress,
      result, unjittered, previous, scanProgress, app, discovery, isScanning,
      scanCompleted, scanResult, scanHistory, cancelRequested, stored, clock,
      insights, fetches>>

SearchInit ==
    /\ gridSize = <<>>
    /\ parsed = Null
    /\ ScanIdle

\* handleSearchChange: the text of the location box has changed.  The new
\* text is kept, a selected location is dropped, and debouncedSearch sets a
\* timeout for the text; the function it returns, which would clear that
\* timeout, is not kept.
HandleSearchChange ==
    /\ ops < MaxOps
    /\ \E newQuery \in SearchTexts :
          /\ newQuery # inputValue
          /\ inputValue' = newQuery
          /\ timers' = timers \cup
                 {[id |-> ops, query |-> newQuery, due |-> now + DebounceMs]}
    /\ settings' = [settings EXCEPT !.location = Null]
    /\ ops' = ops + 1
    /\ UNCHANGED <<besideSearch, searches, now>>

\* Time passes, up to the moment the next timeout is due.
Pass ==
    /\ timers # {}
    /\ \E ms \in Pauses :
          /\ \A t \in timers : now + ms <= t.due
          /\ now' = now + ms
    /\ UNCHANGED <<besideSearch, settings, ops, inputValue, timers, searches>>

\* A timeout that is due runs its callback: onSearch(query) when the
\* trimmed text has at least three characters.
RunTimeout ==
    /\ \E t \in timers :
          /\ t.due <= now
          /\ timers' = timers \ {t}
          /\ searches' = IF Len(trim(t.query)) >= 3
                         THEN Append(searches, t.query)
                         ELSE searches
    /\ UNCHANGED <<besideSearch, settings, ops, inputValue, now>>

SearchNext == HandleSearchChange \/ Pass \/ RunTimeout

SpecSearch == SearchInit /\ [][SearchNext]_vars



--------------------------------------------------------------------------
(* Claims about the scan                                                   *)

\* The call got past its location check (settings.location is a business).
Started == pc \in {"sleep", "score", "aggregate", "returned"}

\* The ids of the candidates (target plus competitors) are pairwise distinct.
DistinctIds ==
    /\ ~HasNullEntry
    /\ \A i, j \in 1..Len(allBusinesses) :
          i # j => allBusinesses[i].id # allBusinesses[j].id

\* The grid-size text asks for w columns and h rows.
AsksFor(w, h) == settings.gridSize = GridText(w, h)

\* C1: in a scan that completes onProgress is called exactly columns x rows
\* times, and at any time the k-th call made so far carried current = k and
\* total = columns x rows.
C1_ProgressCountsEveryPoint ==
    \A w, h \in 0..MaxDim :
        (Started /\ AsksFor(w, h)) =>
            /\ \A k \in 1..Len(progress) :
                  progress[k] = [current |-> k, total |-> w * h]
            /\ pc = "returned" => Len(progress) = w * h

\* A 2 x 2 scan has returned after four progress calls.
C1_Witness ==
    pc = "returned" /\ AsksFor(2, 2) /\ Len(progress) = 4

\* C2 as claimed: whenever the progress sink has received current = k, at
\* least k grid points have been scored and recorded in rankings.
C2_TickAfterScoring ==
    \A k \in 1..Len(progress) : Len(rankings) >= progress[k].current

\* C3: a completed scan of a grid with columns >= 1 and rows >= 1 returns
\* exactly columns x rows ranking points, one for each cell (row, column).
C3_OnePointPerCell ==
    \A w, h \in 1..MaxDim :
        (pc = "returned" /\ AsksFor(w, h)) =>
            /\ Len(result.rankings) = w * h
            /\ \A row \in 0..(h - 1), col \in 0..(w - 1) :
                  Cardinality({i \in 1..Len(result.rankings) :
                                 result.rankings[i].id = row * w + col}) = 1

\* A scan of two columns and one row has returned two points.
C3_Witness ==
    pc = "returned" /\ AsksFor(2, 1) /\ Len(result.rankings) = 2

\* C4: at every grid point, for N candidates of pairwise distinct ids, the
\* ranking list has length N, its ranks are exactly 1..N, each at its place,
\* and every candidate id appears in it exactly once.
C4_RanksArePermutation ==
    (Started /\ DistinctIds) =>
        \A p \in 1..Len(rankings) :
            LET crs == rankings[p].competitorRanks
                N == 1 + Len(competitors)
            IN  /\ Len(crs) = N
                /\ {crs[i].rank : i \in 1..Len(crs)} = 1..N
                /\ \A i, j \in 1..Len(crs) : i # j => crs[i].rank # crs[j].rank
                /\ \A b \in 1..Len(allBusinesses) :
                      Cardinality({i \in 1..Len(crs) :
                          crs[i].business.id = allBusinesses[b].id}) = 1

\* Three candidates of distinct ids have been ranked at a point in another
\* order than they were given in: the target came last.
C4_Witness ==
    /\ Started /\ DistinctIds /\ Len(competitors) = 2
    /\ \E p \in 1..Len(rankings) :
          rankings[p].competitorRanks[3].business.id = settings.location.id

\* C5: after a scan every ranking point's competitorRanks holds an entry
\* with the target's id whose rank is the point's rank; with candidates of
\* distinct ids that rank lies in 1..N (the fallback 21 is not used).
C5_TargetRankIsItsEntry ==
    pc = "returned" =>
        \A p \in 1..Len(result.rankings) :
            LET pt == result.rankings[p]
            IN  /\ \E i \in 1..Len(pt.competitorRanks) :
                      /\ pt.competitorRanks[i].business.id = settings.location.id
                      /\ pt.competitorRanks[i].rank = pt.rank
                /\ DistinctIds => pt.rank \in 1..(1 + Len(competitors))

\* A scan has returned a point at which the target ranks behind a competitor.
C5_Witness ==
    /\ pc = "returned"
    /\ \E p \in 1..Len(result.rankings) : result.rankings[p].rank > 1


\* The target ranks of the returned points, added up one by one.
RankTotal == SumRanks(result.rankings)

PointsWithin(n) ==
    Cardinality({i \in 1..Len(result.rankings) : result.rankings[i].rank <= n})

\* C7 as claimed: summary.top3 is 100 x (points with target rank <= 3) /
\* (points), summary.top10 likewise with 10, both in 0..100.
C7_TopsArePercentages ==
    (pc = "returned" /\ Len(result.rankings) > 0) =>
        /\ result.summary.top3 * Len(result.rankings) = 100 * PointsWithin(3)
        /\ result.summary.top10 * Len(result.rankings) = 100 * PointsWithin(10)
        /\ result.summary.top3 \in 0..100
        /\ result.summary.top10 \in 0..100

\* a.averageRank <= b.averageRank
AverageAtMost(a, b) ==
    a.averageRank.num * b.averageRank.den <= b.averageRank.num * a.averageRank.den

\* C8: the competitors list of a result is ordered by average rank
\* ascending: each entry's averageRank is at most the next entry's.
C8_CompetitorsAscending ==
    pc = "returned" =>
        \A i \in 1..(Len(result.competitors) - 1) :
            AverageAtMost(result.competitors[i], result.competitors[i + 1])

\* A scan has returned a list in which the candidates changed places: a
\* competitor with a strictly better average stands before the target.
C8_Witness ==
    /\ pc = "returned"
    /\ Len(result.competitors) = 3
    /\ result.competitors[1].id # settings.location.id
    /\ ~AverageAtMost(result.competitors[2], result.competitors[1])
    /\ ~AverageAtMost(result.competitors[3], result.competitors[2])

\* The entries (point, place) of the returned ranking lists that carry id.
EntriesOf(id) ==
    {e \in (1..Len(result.rankings)) \X (1..(1 + Len(competitors))) :
        /\ e[2] <= Len(result.rankings[e[1]].competitorRanks)
        /\ result.rankings[e[1]].competitorRanks[e[2]].business.id = id}

RECURSIVE RankSum(_)
\* The ranks of a set of entries added up.
RankSum(es) ==
    IF es = {} THEN 0
    ELSE LET e == CHOOSE x \in es : TRUE
         IN  result.rankings[e[1]].competitorRanks[e[2]].rank + RankSum(es \ {e})

\* The business ids seen in the ranking points of the result.
SeenIds ==
    {result.rankings[p].competitorRanks[i].business.id :
        p \in 1..Len(result.rankings), i \in 1..(1 + Len(competitors))}

CandidateIds == {allBusinesses[i].id : i \in 1..Len(allBusinesses)}

StandingIds == {result.competitors[i].id : i \in 1..Len(result.competitors)}

--------------------------------------------------------------------------
(* Claims about the grid a scan runs with and about failures               *)

\* C11 as claimed: the grid a scan runs with always has columns >= 1 and
\* rows >= 1 (a text giving a non-positive count is replaced by the
\* defaults), so that a scan never returns over zero points.
C11_GridIsPositive ==
    /\ grid # Null => (grid.width >= 1 /\ grid.height >= 1)
    /\ pc = "returned" => Len(result.rankings) >= 1

\* C12 as claimed: a failure of scoring at one grid point never fails the
\* whole scan (the point is skipped and the scan goes on to return the other
\* points): a call rejects only before it has started on its first point.
C12_PointFailureIsContained ==
    pc = "thrown" => Len(progress) = 0

--------------------------------------------------------------------------
(* Claims about handleScan                                                 *)

\* Competitor discovery failed: the API call threw, or its answer held no
\* array that parses.
DiscoveryFailed == discovery \in {"noJson", "parseError", "apiError"}

\* C13: when competitor discovery fails, the scan handleScan started runs
\* with an empty competitor list over the whole grid and ends with a scan
\* result of columns x rows points, stored as the completed scan.
C13_DiscoveryFailureStillScans ==
    DiscoveryFailed =>
        /\ competitors = <<>>
        /\ app # "done" => (isScanning /\ pc # "thrown")
        /\ app = "done" =>
              /\ scanCompleted
              /\ scanResult # Null
              /\ Len(scanResult.rankings) = grid.width * grid.height
              /\ scanResult.competitors = <<[id |-> settings.location.id,
                     latitude |-> settings.location.latitude,
                     longitude |-> settings.location.longitude,
                     averageRank |-> IF Len(scanResult.rankings) > 0
                                     THEN [num |-> Len(scanResult.rankings),
                                           den |-> Len(scanResult.rankings)]
                                     ELSE [num |-> 99, den |-> 1]]>>

\* Discovery failed with the API call throwing, and the 2 x 2 scan it was
\* for has ended with four points stored.
C13_Witness ==
    /\ discovery = "apiError"
    /\ app = "done"
    /\ scanResult # Null
    /\ Len(scanResult.rankings) = 4

--------------------------------------------------------------------------
(* Claims about a scan's inputs                                            *)

\* C14: without a target business (settings.location is null)
\* generateScanResults throws before anything else: no onProgress call is
\* made, no grid is parsed, no point is scored, no ScanResult is produced.
C14_NoLocationThrowsFirst ==
    settings.location = Null =>
        /\ pc \in {"idle", "thrown"}
        /\ progress = <<>>
        /\ rankings = <<>>
        /\ grid = Null
        /\ result = Null

\* A call without a location has thrown.
C14_Witness ==
    settings.location = Null /\ pc = "thrown"

\* C15 as claimed: a scan run with an empty competitor list returns a result
\* in which every ranking list has exactly one entry, the target has rank 1
\* at every grid point, and summary.averageRank is 1.
C15_EmptyListTargetFirst ==
    (pc = "returned" /\ competitors = <<>>) =>
        /\ \A p \in 1..Len(result.rankings) :
              /\ Len(result.rankings[p].competitorRanks) = 1
              /\ result.rankings[p].rank = 1
        /\ result.summary.averageRank # NaN
        /\ FracEq(result.summary.averageRank, One)

\* C16 as claimed: once the caller has requested cancellation of the running
\* scan, no further onProgress call is made, and no ScanResult is stored as
\* the completed scan or put in the history.
C16_CancelStopsTheScan ==
    [][cancelRequested =>
          /\ progress' = progress
          /\ scanResult' = Null
          /\ scanHistory' = scanHistory]_vars

--------------------------------------------------------------------------
(* Claims about repeated scans                                             *)

--------------------------------------------------------------------------
(* Claims about the geometry of the grid                                   *)

RECURSIVE SumLat(_)
\* The latitudes of a list of ranking points added up.
SumLat(s) ==
    IF s = <<>> THEN 0 ELSE SumLat(SubSeq(s, 1, Len(s) - 1)) + s[Len(s)].lat

RECURSIVE SumLng(_)
\* The longitudes of a list of ranking points added up.
SumLng(s) ==
    IF s = <<>> THEN 0 ELSE SumLng(SubSeq(s, 1, Len(s) - 1)) + s[Len(s)].lng

\* C18: for every grid with columns >= 1 and rows >= 1 the points of a
\* result are centred on the target: their latitudes add up to columns x
\* rows times the target's latitude, and their longitudes likewise.
C18_PointsCentredOnTarget ==
    (pc = "returned" /\ grid.width >= 1 /\ grid.height >= 1) =>
        /\ SumLat(result.rankings)
              = grid.width * grid.height * settings.location.latitude
        /\ SumLng(result.rankings)
              = grid.width * grid.height * settings.location.longitude

\* A scan of two columns and one row has returned: two points apart, none of
\* them at the target.
C18_Witness ==
    /\ pc = "returned"
    /\ AsksFor(2, 1)
    /\ Len(result.rankings) = 2
    /\ result.rankings[1].lng # result.rankings[2].lng
    /\ \A p \in 1..2 : result.rankings[p].lng # settings.location.longitude

\* C19: a 1 x 1 grid of any span has step 0 and yields exactly one ranking
\* point, at the target's latitude and longitude.
C19_OnePointAtTarget ==
    (grid # Null /\ grid.width = 1 /\ grid.height = 1) =>
        /\ stepM = 0
        /\ \A p \in 1..Len(rankings) :
              /\ rankings[p].lat = settings.location.latitude
              /\ rankings[p].lng = settings.location.longitude
        /\ pc = "returned" => Len(result.rankings) = 1

\* A 1 x 1 scan with a span of 4 km has returned its point.
C19_Witness ==
    /\ pc = "returned"
    /\ grid.width = 1
    /\ grid.height = 1
    /\ grid.spanKm = [num |-> 4, den |-> 1]
    /\ Len(result.rankings) = 1

\* C20: the ranking points of a result are in row-major order with ids from
\* 0: the i-th point has id i and lies in row i div columns and column
\* i mod columns of the grid.
C20_RowMajorFromZero ==
    (pc = "returned" /\ grid.width >= 1) =>
        \A i \in 0..(Len(result.rankings) - 1) :
            /\ result.rankings[i + 1].id = i
            /\ result.rankings[i + 1].lat = startLat - (i \div grid.width) * 2 * stepM
            /\ result.rankings[i + 1].lng = startLng + (i % grid.width) * 2 * stepM

\* A 2 x 2 scan has returned: its third point is the first of the second
\* row, south of the first point and on its longitude.
C20_Witness ==
    /\ pc = "returned"
    /\ AsksFor(2, 2)
    /\ result.rankings[3].id = 2
    /\ result.rankings[3].lat < result.rankings[1].lat
    /\ result.rankings[3].lng = result.rankings[1].lng

--------------------------------------------------------------------------
(* Claims C21 to C30                                                       *)

\* C21: no step of a scan changes the settings, the competitors or the
\* sources it was called with, and the result it returns carries
\* settings.gridSize as gridSize and the sources argument as sources.
C21_ArgumentsCarriedUnchanged ==
    [][ /\ settings' = settings
        /\ competitors' = competitors
        /\ sources' = sources
        /\ (result' # Null =>
               /\ result'.gridSize = settings.gridSize
               /\ result'.sources = sources) ]_vars

\* C21: a scan called with sources has returned its result.
C21_Witness ==
    /\ pc = "returned"
    /\ sources # <<>>
    /\ competitors # <<>>
    /\ result.sources = sources
    /\ result.gridSize = settings.gridSize

\* The two businesses are equally far from the grid point pt: with equal
\* jitter factors their scores there are exactly equal.
EquallyFar(pt, a, b) ==
    getDistanceKm(pt.lat, pt.lng, a.latitude, a.longitude)
        = getDistanceKm(pt.lat, pt.lng, b.latitude, b.longitude)

\* a stands before b in allBusinesses.
InInputOrder(a, b) ==
    \E p, q \in 1..Len(allBusinesses) :
        p < q /\ allBusinesses[p] = a /\ allBusinesses[q] = b

\* C22: at a grid point where two candidates score exactly the same (every
\* jitter factor was 1 and they are equally far away), the one that stands
\* first in the input, target first and then the competitors in discovery
\* order, is ranked first.
C22_TiesKeepInputOrder ==
    unjittered =>
        \A k \in 1..Len(rankings) :
            LET crs == rankings[k].competitorRanks
            IN  \A i, j \in 1..Len(crs) :
                    (i < j /\ EquallyFar(rankings[k], crs[i].business, crs[j].business))
                        => InInputOrder(crs[i].business, crs[j].business)

\* C22: a point was scored at which two different candidates tied.
C22_Witness ==
    /\ unjittered
    /\ \E k \in 1..Len(rankings) :
           LET crs == rankings[k].competitorRanks
           IN  \E i, j \in 1..Len(crs) :
                   /\ i < j
                   /\ crs[i].business # crs[j].business
                   /\ EquallyFar(rankings[k], crs[i].business, crs[j].business)
                   /\ InInputOrder(crs[i].business, crs[j].business)

\* The row and the column of the k-th point recorded (k from 1).
RowOf(k) == (k - 1) \div grid.width

ColumnOf(k) == (k - 1) % grid.width

RECURSIVE SumTotals(_)
\* The rank totals of the entries of businessRankSums, added up.
SumTotals(s) ==
    IF s = <<>> THEN 0 ELSE SumTotals(SubSeq(s, 1, Len(s) - 1)) + s[Len(s)].total

RECURSIVE SumAverages(_)
\* The averageRank values of a list of standings, added up as a fraction.
SumAverages(s) ==
    IF s = <<>> THEN [num |-> 0, den |-> 1]
    ELSE LET front == SumAverages(SubSeq(s, 1, Len(s) - 1))
             last == s[Len(s)].averageRank
         IN  [num |-> front.num * last.den + last.num * front.den,
              den |-> front.den * last.den]

\* C29: a scan of N candidates with pairwise distinct ids over P points has
\* returned: the rank totals per business add up to P x N x (N+1) / 2 and
\* the averageRank values of the competitors list to N x (N+1) / 2.
C29_RankTotalsConserved ==
    (pc = "returned" /\ DistinctIds) =>
        LET N == Len(allBusinesses)
            P == Len(rankings)
            sum == SumAverages(result.competitors)
        IN  /\ 2 * SumTotals(businessRankSums) = P * N * (N + 1)
            /\ 2 * sum.num = N * (N + 1) * sum.den

\* C29 for the scans over at least one point, where it holds.
C29_ConservedOverPoints ==
    (pc = "returned" /\ DistinctIds /\ Len(rankings) > 0) =>
        LET N == Len(allBusinesses)
            P == Len(rankings)
            sum == SumAverages(result.competitors)
        IN  /\ 2 * SumTotals(businessRankSums) = P * N * (N + 1)
            /\ 2 * sum.num = N * (N + 1) * sum.den

\* C24: while isScanning, scanResult is null; the one step of a scan that
\* sets scanResult sets it to the result returned, which holds a point for
\* every column of every row, and ends the scan.
C24_NoPartialScanShown ==
    [][ /\ isScanning => scanResult = Null
        /\ isScanning' => scanResult' = Null
        /\ (isScanning /\ scanResult' # scanResult) =>
               /\ scanResult' = result
               /\ Len(scanResult'.rankings) = grid.width * grid.height
               /\ Len(progress) = grid.width * grid.height
               /\ ~isScanning' ]_vars

\* C24: a scan over two points has completed and its result is shown.
C24_Witness ==
    /\ ~isScanning
    /\ app = "done"
    /\ scanResult # Null
    /\ scanResult = result
    /\ Len(scanResult.rankings) = 2

\* C26: while a scan runs and has not returned, the history and its stored
\* copy stay as they were when it started; the step in which handleScan
\* ends after a failure leaves isScanning false, scanProgress null,
\* scanResult null, scanCompleted false, and the history and its stored
\* copy unchanged.
C26_FailedScanLeavesNoTrace ==
    [][ /\ (isScanning /\ pc # "returned") =>
               (scanHistory' = scanHistory /\ stored' = stored)
        /\ (isScanning /\ pc = "thrown" /\ ~isScanning') =>
               /\ scanProgress' = Null
               /\ scanResult' = Null
               /\ scanCompleted' = FALSE
               /\ scanHistory' = scanHistory
               /\ stored' = stored ]_vars

\* C26: a scan over a history of ten entries has failed after a tick, and
\* handleScan has finished.
C26_Witness ==
    /\ app = "done"
    /\ pc = "thrown"
    /\ progress # <<>>
    /\ ~isScanning
    /\ scanProgress = Null
    /\ scanResult = Null
    /\ ~scanCompleted
    /\ Len(scanHistory) = 10
    /\ stored = scanHistory

\* C27: scanProgress is set only while a scan is running, and no step
\* taken while none is running sets it.
C27_ProgressOnlyWhileScanning ==
    [][ /\ scanProgress # Null => isScanning
        /\ scanProgress' # Null => isScanning'
        /\ ~isScanning => scanProgress' = Null ]_vars

\* C27: a second scan has been started after a first one that ticked, and
\* the progress of the first is gone.
C27_Witness ==
    /\ ops >= 2
    /\ isScanning
    /\ app = "scan"
    /\ pc = "sleep"
    /\ progress = <<>>
    /\ scanProgress = Null
    /\ Len(scanHistory) > 0
    /\ scanHistory[1].id = clock
    /\ Len(scanHistory[1].result.rankings) = 2

\* The step in which a scan completes.
ScanCompletes == app = "scan" /\ pc = "returned" /\ app' = "done"

\* C25: the history never holds more than ten entries, the scan that has
\* just completed is its first entry, and whenever the history is changed
\* the copy in localStorage equals it.
C25_HistoryKeepsLatestTen ==
    [][ /\ Len(scanHistory') <= 10
        /\ ScanCompletes =>
               /\ scanHistory'[1].result = result
               /\ scanHistory'[1].settings = settings
               /\ \A i \in 2..Len(scanHistory') : scanHistory'[i] = scanHistory[i - 1]
        /\ scanHistory' # scanHistory => stored' = scanHistory' ]_vars

\* C25: a scan has completed over a full history: it is the first of ten
\* entries, the oldest entry is gone, and the stored copy is the same.
C25_Witness ==
    /\ Len(scanHistory) = 10
    /\ clock = 11
    /\ scanHistory[1].id = 11
    /\ scanHistory[10].id = 2
    /\ scanHistory[1].result = scanResult
    /\ stored = scanHistory

\* C28: an insight that shows an answer (status 'success' or 'error') shows
\* the answer to a fetch started for the result now displayed, never one
\* started before the insights were last reset.
C28_InsightsBelongToShownResult ==
    \A type \in InsightTypes :
        insights[type].status \in {"success", "error"} =>
            (scanResult # Null /\ ~insights[type].stale)

\* C30: at most one timeout is pending, the earlier ones being cancelled,
\* and a call of onSearch is made with the text the box holds.
C30_SearchIsDebounced ==
    [][ /\ Cardinality(timers') <= 1
        /\ searches' # searches => searches'[Len(searches')] = inputValue ]_vars

==========================================================================
